---------------------------- MODULE Spec2Model ----------------------------
(***************************************************************************)
(* RedCLAP parser (src/clap/parser.py): Parser.parse() and                 *)
(* ParsedUI.finalise() over a fixed tree of modes.                         *)
(*                                                                         *)
(* The mode and option descriptors and shared.lookslikeopt() are           *)
(* collaborators defined outside parser.py; they are modelled by the       *)
(* query surface of section 6 of the specification and by the way          *)
(* parser.py calls them.  Everything else is translated from parser.py.    *)
(* Indices i, j, index, n are the 0-based indices of the Python code; a    *)
(* Python list a is the sequence a with a[i] written a[i+1].               *)
(***************************************************************************)
EXTENDS Integers, Sequences, FiniteSets, TLC

VARIABLES
    args,     \* Parser._args of the root parser: the tokens fed
    parsed,   \* Parser._parsed['options'] of the root parser
    ui,       \* the chain of ParsedUI nodes, root first (ParsedUI._child links)
    err,      \* the exception parse() raised, "" when none
    pc        \* "fed", "parsed", "failed", "finalised"

vars == <<args, parsed, ui, err, pc>>

-----------------------------------------------------------------------------
(* Bounds of the model *)

\* longest token sequence drawn from the whole token alphabet
MaxLen == 3
\* longest token sequence drawn from the tokens that build a chain of modes
MaxChainLen == 5

-----------------------------------------------------------------------------
(* The token alphabet and the mode tree the parser is run against *)

OptionLike == {"-v", "--verbose", "-x", "-y", "-n", "--num", "-p"}

Tokens == OptionLike \cup {"--", "---", "go", "deep", "file1", "7", "8"}

ChainTokens == {"-v", "-n", "7", "8", "go", "deep"}

\* shared.lookslikeopt(s): one dash and a character, or two dashes and a name;
\* the separators "--" and "---" do not look like options
LooksLikeOpt(s) == s \in OptionLike

\* Option descriptors: the two spellings ("" when there is none), the type
\* tags of the parameters, the plurality flag
OptV == [short |-> "-v", long |-> "--verbose", params |-> <<>>, plural |-> TRUE]
OptX == [short |-> "-x", long |-> "", params |-> <<>>, plural |-> TRUE]
OptN == [short |-> "-n", long |-> "--num", params |-> <<"int">>, plural |-> FALSE]
OptP == [short |-> "-p", long |-> "", params |-> <<"str", "str">>, plural |-> TRUE]
OptY == [short |-> "-y", long |-> "", params |-> <<>>, plural |-> FALSE]

\* mode.options(group='global') and mode.options(group='local')
GlobalOptions(m) == IF m = "root" THEN {OptV, OptN, OptP} ELSE {OptV, OptN, OptP, OptY}

LocalOptions(m) == IF m = "root" THEN {OptX} ELSE {}

Options(m) == LocalOptions(m) \cup GlobalOptions(m)

\* mode.modes(): the names of the child modes (a child is named as its mode)
Modes(m) == IF m = "root" THEN {"go"} ELSE IF m = "go" THEN {"deep"} ELSE {}

HasMode(m, name) == name \in Modes(m)

\* option.match(s)
Match(o, s) == s # "" /\ (s = o.short \/ s = o.long)

Accepts(m, s) == \E o \in Options(m) : Match(o, s)

GetOpt(m, s) == CHOOSE o \in Options(m) : Match(o, s)

\* mode.params(s); an option the mode does not declare has no parameters
Params(m, s) == IF Accepts(m, s) THEN GetOpt(m, s).params ELSE <<>>

\* mode.alias(s): the other spelling, s itself when the option has only one
Alias(m, s) ==
    LET o == GetOpt(m, s)
        other == IF s = o.short THEN o.long ELSE o.short
    IN IF other = "" THEN s ELSE other

-----------------------------------------------------------------------------
(* Values *)

\* the four shapes of an entry of the options map
NoneValue == [kind |-> "none", count |-> 0, vals |-> <<>>]

CountValue(k) == [kind |-> "count", count |-> k, vals |-> <<>>]

TupleValue(t) == [kind |-> "tuple", count |-> 0, vals |-> <<t>>]

ListValue(l) == [kind |-> "list", count |-> 0, vals |-> l]

EmptyMap == [k \in {} |-> NoneValue]

Put(map, k, v) == [x \in DOMAIN map \cup {k} |-> IF x = k THEN v ELSE map[x]]

\* Python's a[lo:hi]
Slice(a, lo, hi) ==
    LET h == IF hi > Len(a) THEN Len(a) ELSE hi
    IN IF lo >= h THEN <<>> ELSE SubSeq(a, lo + 1, h)

\* the built-in type handlers of Parser.__init__: str keeps the token, int
\* converts a numeral and raises ValueError on anything else
HandlerOk(tag, raw) == tag = "str" \/ (tag = "int" /\ raw \in {"7", "8"})

Handler(tag, raw) == IF tag = "str" THEN raw ELSE IF raw = "7" THEN 7 ELSE 8


-----------------------------------------------------------------------------
(* Parser._getinput *)

\* the while loop of _getinput from index i on; the value is the final `index`
RECURSIVE GetInputScan(_, _, _, _)
GetInputScan(m, a, i, index) ==
    IF i >= Len(a) THEN index
    ELSE LET item == a[i + 1]
             prevopt == i > 0 /\ LooksLikeOpt(a[i])
         IN IF item = "--" THEN index
            ELSE IF i = 0 /\ ~LooksLikeOpt(item) THEN index
            ELSE IF i > 0 /\ ~LooksLikeOpt(item) /\ ~prevopt THEN index
            ELSE IF i > 0 /\ ~LooksLikeOpt(item) /\ prevopt /\ Params(m, a[i]) = <<>>
                 THEN index
            ELSE LET j == IF i > 0 /\ ~LooksLikeOpt(item) /\ prevopt /\ Params(m, a[i]) # <<>>
                          THEN i + Len(Params(m, a[i])) - 1
                          ELSE i
                 IN GetInputScan(m, a, j + 1, j)

\* the input window: the options and their arguments, without the operands
GetInput(m, a) ==
    LET index == GetInputScan(m, a, 0, -1)
    IN IF index >= 0 THEN Slice(a, 0, index + 1) ELSE <<>>

-----------------------------------------------------------------------------
(* Parser.parse: the option loop and the aggregation *)

\* the first parameter slot that raises: no raw value left (IndexError) or a
\* value its handler rejects (ValueError); n when every slot converts
RECURSIVE FirstBadParam(_, _, _)
FirstBadParam(types, raw, j) ==
    IF j >= Len(types) THEN j
    ELSE IF j >= Len(raw) \/ ~HandlerOk(types[j + 1], raw[j + 1]) THEN j
    ELSE FirstBadParam(types, raw, j + 1)

\* the for loop over the callbacks, when no slot raises
Coerce(types, raw) == [j \in 1..Len(types) |-> Handler(types[j], raw[j])]

\* Occurrences without the record under the other spelling
OccurrencesNoAlias(m, item, isnone, params) ==
    <<[opt |-> item, none |-> isnone, args |-> params]>>

\* the records appended to `options` for one recognised option
Occurrences(m, item, isnone, params) ==
    LET alias == Alias(m, item)
        occ == [opt |-> item, none |-> isnone, args |-> params]
    IN IF alias # item THEN <<occ, [occ EXCEPT !.opt = alias]>> ELSE <<occ>>

\* Tokenise with a missing or unconvertible parameter ending the loop quietly
RECURSIVE TokeniseLenient(_, _, _, _)
TokeniseLenient(m, input, i, options) ==
    IF i >= Len(input) THEN [err |-> "", occ |-> options, stop |-> i]
    ELSE LET item == input[i + 1]
             types == Params(m, item)
             raw == Slice(input, i + 1, i + 1 + Len(types))
         IN IF LooksLikeOpt(item) /\ Accepts(m, item)
               /\ FirstBadParam(types, raw, 0) >= Len(types)
            THEN TokeniseLenient(m, input, i + Len(types) + 1,
                                 options \o Occurrences(m, item, types = <<>>,
                                                        Coerce(types, raw)))
            ELSE [err |-> "", occ |-> options, stop |-> i]

\* the while loop of parse() from index i on: the occurrences collected, the
\* exception raised ("" when none) and the index the loop stopped at
RECURSIVE Tokenise(_, _, _, _)
Tokenise(m, input, i, options) ==
    IF i >= Len(input) THEN [err |-> "", occ |-> options, stop |-> i]
    ELSE LET item == input[i + 1]
             types == Params(m, item)
         IN IF LooksLikeOpt(item) /\ Accepts(m, item) /\ types = <<>>
            THEN Tokenise(m, input, i + 1, options \o Occurrences(m, item, TRUE, <<>>))
            ELSE IF LooksLikeOpt(item) /\ Accepts(m, item) /\ types # <<>>
            THEN LET n == Len(types)
                     raw == Slice(input, i + 1, i + 1 + n)
                     bad == FirstBadParam(types, raw, 0)
                 IN IF bad < n
                    THEN [err |-> IF bad >= Len(raw) THEN "IndexError" ELSE "ValueError",
                          occ |-> options, stop |-> i]
                    ELSE Tokenise(m, input, i + n + 1,
                                  options \o Occurrences(m, item, FALSE, Coerce(types, raw)))
            ELSE [err |-> "", occ |-> options, stop |-> i]

\* Record with a repeated flag stored, not counted
RecordNoCount(m, map, occ) ==
    LET o == GetOpt(m, occ.opt)
        k == occ.opt
    IN IF o.plural /\ o.params # <<>>
       THEN Put(map, k, ListValue((IF k \in DOMAIN map THEN map[k].vals ELSE <<>>)
                                  \o <<occ.args>>))
       ELSE IF o.plural /\ o.params = <<>>
       THEN Put(map, k, CountValue(1))
       ELSE Put(map, k, IF occ.none THEN NoneValue ELSE TupleValue(occ.args))

\* one round of the aggregation loop
Record(m, map, occ) ==
    LET o == GetOpt(m, occ.opt)
        k == occ.opt
    IN IF o.plural /\ o.params # <<>>
       THEN Put(map, k, ListValue((IF k \in DOMAIN map THEN map[k].vals ELSE <<>>)
                                  \o <<occ.args>>))
       ELSE IF o.plural /\ o.params = <<>>
       THEN Put(map, k, CountValue((IF k \in DOMAIN map THEN map[k].count ELSE 0) + 1))
       ELSE Put(map, k, IF occ.none THEN NoneValue ELSE TupleValue(occ.args))

\* the aggregation loop of parse() into self._parsed['options']
RECURSIVE Aggregate(_, _, _)
Aggregate(m, map, occs) ==
    IF occs = <<>> THEN map
    ELSE Aggregate(m, Record(m, map, Head(occs)), Tail(occs))

-----------------------------------------------------------------------------
(* The operand / nested-mode split *)

IsAcceptedInChildModes(m, option) == \E c \in Modes(m) : Accepts(c, option)

\* the while loop of _heuralgo from index i on
RECURSIVE HeurScan(_, _, _, _)
HeurScan(m, opers, i, operands) ==
    IF i >= Len(opers)
    THEN [err |-> "", operands |-> operands, nested |-> <<>>]
    ELSE LET item == opers[i + 1]
         IN IF HasMode(m, item)
            THEN [err |-> "", operands |-> operands, nested |-> Slice(opers, i, Len(opers))]
            ELSE IF LooksLikeOpt(item) /\ IsAcceptedInChildModes(m, item)
            THEN IF operands = <<>>
                 THEN [err |-> "IndexError", operands |-> <<>>, nested |-> <<>>]
                 ELSE [err |-> "", operands |-> SubSeq(operands, 1, Len(operands) - 1),
                       nested |-> Slice(opers, i - 1, Len(opers))]
            ELSE HeurScan(m, opers, i + 1, Append(operands, item))

HeurAlgo(m, opers) == HeurScan(m, opers, 0, <<>>)

\* GetHeurOperands without the test for the separator
GetHeurOperandsNoBreaker(m, a) ==
    HeurAlgo(m, Slice(a, Len(GetInput(m, a)), Len(a)))

\* (operands-for-current-mode, items-for-child-mode)
GetHeurOperands(m, a) ==
    LET n == Len(GetInput(m, a))
        operands == Slice(a, n, Len(a))
        breaker == operands # <<>> /\ operands[1] = "--"
    IN IF breaker
       THEN [err |-> "", operands |-> Tail(operands), nested |-> <<>>]
       ELSE HeurAlgo(m, operands)

-----------------------------------------------------------------------------
(* Parser.parse *)

\* a ParsedUI with the Parser that made it: _name, _mode, the tokens the parser
\* was fed, _options and _operands
Node(name, m, a, options, operands) ==
    [name |-> name, mode |-> m, argv |-> a, options |-> options, operands |-> operands]

\* parse() of a parser for mode m fed the tokens a, whose _parsed['options']
\* is `prior`: the exception raised ("" when none), the chain of nodes built
\* (on an exception, this parser's own node as far as it was filled) and the
\* parser's _parsed['options'] afterwards
RECURSIVE ParseMode(_, _, _, _)

\* the end of parse(): the node of the nested parser is appended
ParseNested(node, options, child) ==
    IF child.err # ""
    THEN [err |-> child.err, chain |-> <<node>>, parsed |-> options]
    ELSE [err |-> "", chain |-> <<node>> \o child.chain, parsed |-> options]

\* parse() from the split of the operands on
ParseOperands(name, m, a, options, split) ==
    IF split.err # ""
    THEN [err |-> split.err, chain |-> <<Node(name, m, a, EmptyMap, <<>>)>>,
          parsed |-> options]
    ELSE IF split.nested = <<>>
    THEN [err |-> "", chain |-> <<Node(name, m, a, options, split.operands)>>,
          parsed |-> options]
    ELSE IF ~HasMode(m, Head(split.nested))
    THEN [err |-> "KeyError", chain |-> <<Node(name, m, a, options, split.operands)>>,
          parsed |-> options]
    ELSE ParseNested(Node(name, m, a, options, split.operands), options,
                     ParseMode(Head(split.nested), Head(split.nested),
                               Tail(split.nested), EmptyMap))

\* parse() from the aggregation loop on
ParseOptions(name, m, a, prior, tok) ==
    IF tok.err # ""
    THEN [err |-> tok.err, chain |-> <<Node(name, m, a, EmptyMap, <<>>)>>,
          parsed |-> prior]
    ELSE ParseOperands(name, m, a, Aggregate(m, prior, tok.occ), GetHeurOperands(m, a))

ParseMode(name, m, a, prior) ==
    ParseOptions(name, m, a, prior, Tokenise(m, GetInput(m, a), 0, <<>>))

-----------------------------------------------------------------------------
(* ParsedUI.finalise *)

IsGlobal(m, k) == \E o \in GlobalOptions(m) : Match(o, k)

GlobalMatch(m, k) == CHOOSE o \in GlobalOptions(m) : Match(o, k)

\* Propagate without the merge of the counts
PropagateNoMerge(m, k, v, child) ==
    IF IsGlobal(m, k) /\ k \notin DOMAIN child THEN Put(child, k, v) ELSE child

\* Propagate with the parent's value always written over the child's
PropagateOverwrite(m, k, v, child) ==
    IF ~IsGlobal(m, k) THEN child ELSE Put(child, k, v)

\* what the loop body of finalise() leaves in the child under key k of the parent
Propagate(m, k, v, child) ==
    IF ~IsGlobal(m, k) THEN child
    ELSE LET match == GlobalMatch(m, k)
         IN IF k \in DOMAIN child /\ match.plural /\ match.params = <<>>
            THEN Put(child, k, CountValue(child[k].count + v.count))
            ELSE IF k \notin DOMAIN child THEN Put(child, k, v)
            ELSE child

\* the options of the child after the for loop over the parent's options
RECURSIVE PropagateAll(_, _, _, _)
PropagateAll(m, parent, keys, child) ==
    IF keys = {} THEN child
    ELSE LET k == CHOOSE x \in keys : TRUE
         IN PropagateAll(m, parent, keys \ {k}, Propagate(m, k, parent[k], child))

\* finalise() of node i of the chain, then of its child, down to the last node
RECURSIVE FinaliseFrom(_, _)
FinaliseFrom(chain, i) ==
    IF i >= Len(chain) THEN chain
    ELSE LET parent == chain[i].options
             merged == PropagateAll(chain[i].mode, parent, DOMAIN parent,
                                    chain[i + 1].options)
         IN FinaliseFrom([chain EXCEPT ![i + 1].options = merged], i + 1)

-----------------------------------------------------------------------------
(* ParsedUI.get *)

\* get(key) of a node, tuple-ised: the count of a repeated flag, None for a
\* flag, the value of a single parameter, else the tuple or the list of tuples
Get(node, key) ==
    LET option == GetOpt(node.mode, key)
        value == node.options[key]
    IN IF option.plural /\ option.params = <<>> THEN value.count
       ELSE IF option.params = <<>> THEN "None"
       ELSE IF Len(option.params) = 1 /\ ~option.plural THEN value.vals[1][1]
       ELSE IF option.plural THEN value.vals
       ELSE value.vals[1]

-----------------------------------------------------------------------------
(* The state machine *)

BoundedSeq(S, n) == UNION {[1..k -> S] : k \in 0..n}

\* the token sequences fed: short ones over every token, longer ones over the
\* tokens that build chains of nested modes
Inputs == BoundedSeq(Tokens, MaxLen) \cup BoundedSeq(ChainTokens, MaxChainLen)

\* Parser(mode).feed(argv): a new parser of the root mode with its tokens
Init ==
    /\ args \in Inputs
    /\ parsed = EmptyMap
    /\ ui = <<>>
    /\ err = ""
    /\ pc = "fed"

\* what parse() leaves in the parser: r is the outcome of ParseMode
Outcome(r) ==
    /\ parsed' = r.parsed
    /\ ui' = r.chain
    /\ err' = r.err
    /\ pc' = IF r.err = "" THEN "parsed" ELSE "failed"

\* parser.parse()
Parse ==
    /\ pc = "fed"
    /\ Outcome(ParseMode("", "root", args, parsed))
    /\ UNCHANGED args

\* parser.ui().finalise()
Finalise ==
    /\ pc = "parsed"
    /\ ui' = FinaliseFrom(ui, 1)
    /\ pc' = "finalised"
    /\ UNCHANGED <<args, parsed, err>>

Next == Parse \/ Finalise

Spec == Init /\ [][Next]_vars

-----------------------------------------------------------------------------
(* parse(), one parser at a time: the recursion of parse() into the parser of *)
(* the nested mode, unfolded.  While pc = "nested", ui holds the nodes of    *)
(* the parsers that are waiting for their nested parser, root first.         *)

\* parse() up to the nested input, from the split of the operands on
LevelOperands(name, m, a, options, split) ==
    IF split.err # ""
    THEN [err |-> split.err, node |-> Node(name, m, a, EmptyMap, <<>>),
          parsed |-> options, nested |-> <<>>]
    ELSE [err |-> "", node |-> Node(name, m, a, options, split.operands),
          parsed |-> options, nested |-> split.nested]

\* parse() up to the nested input, from the aggregation loop on
LevelOptions(name, m, a, prior, tok) ==
    IF tok.err # ""
    THEN [err |-> tok.err, node |-> Node(name, m, a, EmptyMap, <<>>),
          parsed |-> prior, nested |-> <<>>]
    ELSE LevelOperands(name, m, a, Aggregate(m, prior, tok.occ), GetHeurOperands(m, a))

\* what one parser does itself in parse(): its node, its _parsed['options']
\* and the input left for the parser of the nested mode
ParseLevel(name, m, a, prior) ==
    LevelOptions(name, m, a, prior, Tokenise(m, GetInput(m, a), 0, <<>>))

\* the tokens fed to the nested parser, with the name of the mode kept in them
NestedArgsNoPop(nested) == nested

\* the tokens fed to the nested parser: nested.pop(0) takes the name of the mode
NestedArgs(nested) == Tail(nested)

\* the nested input of the parser that made the last node of the chain
Pending == GetHeurOperands(ui[Len(ui)].mode, ui[Len(ui)].argv).nested

\* where parse() goes after the level l
After(l) ==
    IF l.err # "" THEN "failed" ELSE IF l.nested = <<>> THEN "parsed" ELSE "nested"

\* what the root parser leaves after its own level l
RootLevel(l) ==
    /\ parsed' = l.parsed
    /\ ui' = <<l.node>>
    /\ err' = l.err
    /\ pc' = After(l)

\* what a nested parser leaves after its own level l; an exception unwinds
\* every parser above it before its node is appended
NestedLevel(l) ==
    /\ ui' = IF l.err # "" THEN <<ui[1]>> ELSE Append(ui, l.node)
    /\ err' = l.err
    /\ pc' = After(l)

\* parser.parse(), up to the call of the nested parser
ParseRoot ==
    /\ pc = "fed"
    /\ RootLevel(ParseLevel("", "root", args, parsed))
    /\ UNCHANGED args

\* the lookup of the nested mode fails
UnknownMode ==
    /\ pc = "nested"
    /\ ~HasMode(ui[Len(ui)].mode, Head(Pending))
    /\ ui' = <<ui[1]>>
    /\ err' = "KeyError"
    /\ pc' = "failed"
    /\ UNCHANGED <<args, parsed>>

\* Parser(mode).feed(nested).parse(), up to the call of its own nested parser
ParseNestedMode ==
    /\ pc = "nested"
    /\ HasMode(ui[Len(ui)].mode, Head(Pending))
    /\ NestedLevel(ParseLevel(Head(Pending), Head(Pending), NestedArgs(Pending), EmptyMap))
    /\ UNCHANGED <<args, parsed>>

NextSteps == ParseRoot \/ UnknownMode \/ ParseNestedMode \/ Finalise

\* parse() is synchronous: a call that can proceed does
SpecSteps == Init /\ [][NextSteps]_vars /\ WF_vars(NextSteps)

-----------------------------------------------------------------------------
(* One Parser used again: feed() and parse() called any number of times.     *)
(* __init__ is the only place _parsed is set to a new dictionary; feed()     *)
(* replaces _args only, and parse() adds to _parsed['options'].              *)

\* the longest token sequence fed to a parser that is used again
MaxFeedLen == 3

\* parse() is not called again once an option has been recorded this often
MaxCount == 2

FeedTokens == {"-v", "-p", "7"}

FeedInputs == BoundedSeq(FeedTokens, MaxFeedLen)

\* no entry of _parsed['options'] has reached MaxCount
BelowMaxCount ==
    \A k \in DOMAIN parsed : parsed[k].count < MaxCount /\ Len(parsed[k].vals) < MaxCount

InitFeed ==
    /\ args \in FeedInputs
    /\ parsed = EmptyMap
    /\ ui = <<>>
    /\ err = ""
    /\ pc = "fed"

\* parser.feed(argv): only _args is replaced
Feed ==
    /\ args' \in FeedInputs
    /\ pc' = "fed"
    /\ err' = ""
    /\ UNCHANGED <<parsed, ui>>

\* parser.parse() once more, with no feed() since the last parse()
Reparse ==
    /\ pc \in {"parsed", "finalised", "failed"}
    /\ BelowMaxCount
    /\ Outcome(ParseMode("", "root", args, parsed))
    /\ UNCHANGED args

\* parser.parse() after a feed()
ParseFed ==
    /\ BelowMaxCount
    /\ Parse

NextFeed == Feed \/ ParseFed \/ Reparse \/ Finalise

SpecFeed == InitFeed /\ [][NextFeed]_vars

-----------------------------------------------------------------------------
(* Vocabulary of the properties *)

Range(f) == {f[x] : x \in DOMAIN f}

Last(a) == a[Len(a)]

Arity(m, s) == Len(Params(m, s))

\* the nodes parse() returned, also after finalise()
Returned == pc \in {"parsed", "finalised"}

\* the input window of the root parser
RootWindow == GetInput("root", args)

\* token i of window w is an option of mode m with all its values after it in
\* the window, each one converting
Complete(m, w, i) ==
    /\ i < Len(w)
    /\ LooksLikeOpt(w[i + 1]) /\ Accepts(m, w[i + 1])
    /\ i + Arity(m, w[i + 1]) < Len(w)
    /\ \A j \in 1..Arity(m, w[i + 1]) : HandlerOk(Params(m, w[i + 1])[j], w[i + 1 + j])

\* the option loop arrives at index i of window w: every token before it is a
\* complete option of mode m or one of the values of one
RECURSIVE Reaches(_, _, _)
Reaches(m, w, i) ==
    \/ i = 0
    \/ \E j \in 0..(i - 1) :
          Reaches(m, w, j) /\ Complete(m, w, j) /\ i = j + 1 + Arity(m, w[j + 1])

\* the option loop recognises the option at index i of window w
Recognised(m, w, i) == Reaches(m, w, i) /\ Complete(m, w, i)

\* the separator is the token right after the input window of tokens a
SeparatorFollows(m, a) ==
    LET n == Len(GetInput(m, a)) IN n < Len(a) /\ a[n + 1] = "--"

\* the tokens of a after the separator that follows the window
AfterSeparator(m, a) == Slice(a, Len(GetInput(m, a)) + 1, Len(a))

\* the tokens of r before the first "---"
RECURSIVE UpToTerminator(_)
UpToTerminator(r) ==
    IF r = <<>> \/ Head(r) = "---" THEN <<>> ELSE <<Head(r)>> \o UpToTerminator(Tail(r))

-----------------------------------------------------------------------------
(* C1 *)

\* C1, as claimed: the tokens [-x, file1, -y] parse without an error into a
\* root node with the operands [file1] whose child is the node that parsing
\* [-y] against the mode go gives.
C1_HeuristicSplit ==
    (pc \in {"parsed", "failed"} /\ args = <<"-x", "file1", "-y">>)
        => /\ err = ""
           /\ Len(ui) = 2
           /\ ui[1].operands = <<"file1">>
           /\ ui[2].mode = "go"
           /\ ui[2].options = ParseMode("go", "go", <<"-y">>, EmptyMap).chain[1].options

-----------------------------------------------------------------------------
(* C2 *)

\* C2, as claimed: when the option loop of parse() arrives at a token of the
\* window that looks like an option and that the mode does not accept, parse()
\* fails and no result is returned.
C2_UnrecognisedOptionFatal ==
    pc # "fed" =>
        \A i \in 0..(Len(RootWindow) - 1) :
            (/\ Reaches("root", RootWindow, i)
             /\ LooksLikeOpt(RootWindow[i + 1])
             /\ ~Accepts("root", RootWindow[i + 1]))
                => pc = "failed"

-----------------------------------------------------------------------------
(* C3 *)

-----------------------------------------------------------------------------
(* C4 *)

\* C4: in every node returned, when the token right after the input window is
\* "--", the operands are the tokens after it, in order, and the node has no
\* child.
C4_ExplicitSeparator ==
    Returned =>
        \A i \in 1..Len(ui) :
            SeparatorFollows(ui[i].mode, ui[i].argv)
                => /\ ui[i].operands = AfterSeparator(ui[i].mode, ui[i].argv)
                   /\ i = Len(ui)

\* after the separator come the name of a child mode and an option only the
\* child accepts
C4_Witness ==
    /\ pc = "parsed"
    /\ args = <<"--", "go", "-y">>
    /\ SeparatorFollows("root", args)
    /\ HasMode("root", args[2]) /\ IsAcceptedInChildModes("root", args[3])
    /\ ui[1].operands = <<"go", "-y">>

-----------------------------------------------------------------------------
(* C5 *)

\* C5, as claimed: when "--" opens the operands and "---" occurs after it, the
\* operands of the result are the tokens between "--" and the first "---".
C5_Terminator ==
    (pc = "parsed" /\ SeparatorFollows("root", args)
                   /\ "---" \in Range(AfterSeparator("root", args)))
        => ui[1].operands = UpToTerminator(AfterSeparator("root", args))

-----------------------------------------------------------------------------
(* C6 *)

\* key k is a spelling of a global, repeatable option without parameters of mode m
IsGlobalCount(m, k) ==
    IsGlobal(m, k) /\ GlobalMatch(m, k).plural /\ GlobalMatch(m, k).params = <<>>

\* the step finalise() takes on the root
FinaliseStep == pc = "parsed" /\ pc' = "finalised"

\* C6, as claimed: for a global repeatable flag recorded M times in a parent
\* node and K >= 1 times in its child, finalise() on the root leaves M + K in
\* the child and M in the parent.
C6_ChildCountIsMPlusK ==
    [][FinaliseStep =>
        \A i \in 1..(Len(ui) - 1) :
            \A k \in DOMAIN ui[i].options \cap DOMAIN ui[i + 1].options :
                IsGlobalCount(ui[i].mode, k)
                    => /\ ui'[i + 1].options[k].count
                            = ui[i].options[k].count + ui[i + 1].options[k].count
                       /\ ui'[i].options[k].count = ui[i].options[k].count]_vars

\* C6, amended: for a global repeatable flag in a parent node and recorded
\* K >= 1 times in its child, finalise() on the root leaves in the child K plus
\* the count the parent holds after its own merge; the count of the root does
\* not change, so under the root the child holds M + K.
C6_CountMerge ==
    [][FinaliseStep =>
        /\ ui'[1].options = ui[1].options
        /\ \A i \in 1..(Len(ui) - 1) :
              \A k \in DOMAIN ui'[i].options \cap DOMAIN ui[i + 1].options :
                  IsGlobalCount(ui[i].mode, k)
                      => ui'[i + 1].options[k].count
                            = ui'[i].options[k].count + ui[i + 1].options[k].count]_vars

\* a chain of three nodes, the flag recorded once in each
C6_Witness ==
    /\ pc = "finalised"
    /\ args = <<"-v", "go", "-v", "deep", "-v">>
    /\ Len(ui) = 3
    /\ ui[1].options["-v"].count = 1
    /\ ui[2].options["-v"].count = 2
    /\ ui[3].options["-v"].count = 3

-----------------------------------------------------------------------------
(* C7 *)

\* C7: finalise() on the root leaves, for every global option of a parent node
\* that is not a repeatable flag, the parent's value in a child that had no
\* entry for it and the child's own value in a child that had one; the
\* parent's own entry does not change.
C7_FillIfAbsent ==
    [][FinaliseStep =>
        \A i \in 1..(Len(ui) - 1) :
            \A k \in DOMAIN ui'[i].options :
                (IsGlobal(ui[i].mode, k) /\ ~IsGlobalCount(ui[i].mode, k))
                    => /\ k \in DOMAIN ui[i].options
                            => ui'[i].options[k] = ui[i].options[k]
                       /\ k \in DOMAIN ui'[i + 1].options
                       /\ ui'[i + 1].options[k]
                            = IF k \in DOMAIN ui[i + 1].options
                              THEN ui[i + 1].options[k]
                              ELSE ui'[i].options[k]]_vars

\* the root holds 7 and its child keeps the 8 of its own
C7_Witness ==
    /\ pc = "finalised"
    /\ args = <<"-n", "7", "go", "-n", "8">>
    /\ Len(ui) = 2
    /\ Get(ui[1], "-n") = 7 /\ Get(ui[1], "--num") = 7
    /\ Get(ui[2], "-n") = 8 /\ Get(ui[2], "--num") = 8

-----------------------------------------------------------------------------
(* C8 *)

Spellings(o) == {o.short, o.long} \ {""}

\* the repeatable options without parameters of mode m
Flags(m) == {o \in Options(m) : o.plural /\ o.params = <<>>}

\* how often a spelling of option o appears among the tokens a
Appearances(o, a) == Cardinality({j \in 1..Len(a) : Match(o, a[j])})

\* how often the option loop recognises a spelling of option o in window w
Recognitions(m, o, w) ==
    Cardinality({j \in 0..(Len(w) - 1) : Recognised(m, w, j) /\ Match(o, w[j + 1])})

\* C8, as claimed: a repeatable flag of the current mode that appears K times
\* in the tokens given to parse() has get() return K on the resulting node.
C8_CountIsAppearances ==
    pc = "parsed" =>
        \A o \in Flags("root") : \A k \in Spellings(o) :
            Appearances(o, args) >= 1
                => k \in DOMAIN ui[1].options /\ Get(ui[1], k) = Appearances(o, args)

\* C8, amended: in every node of the result of parse() on a new parser, a
\* repeatable flag of the node's mode that the option loop recognised K >= 1
\* times in the input window, under either spelling, has get() return K under
\* each spelling.
C8_CountIsRecognitions ==
    pc = "parsed" =>
        \A i \in 1..Len(ui) :
            \A o \in Flags(ui[i].mode) : \A k \in Spellings(o) :
                LET K == Recognitions(ui[i].mode, o, GetInput(ui[i].mode, ui[i].argv))
                IN K >= 1 => k \in DOMAIN ui[i].options /\ Get(ui[i], k) = K

\* the flag is recognised once under each spelling, before an operand
C8_Witness ==
    /\ pc = "parsed"
    /\ args = <<"-v", "--verbose", "7">>
    /\ Recognitions("root", OptV, RootWindow) = 2
    /\ Get(ui[1], "-v") = 2 /\ Get(ui[1], "--verbose") = 2

-----------------------------------------------------------------------------
(* C9 *)

\* C9: in every node returned by parse(), an option with an alias that the
\* option loop recognised under one spelling has an entry under that spelling
\* and under the other one, and the two entries are equal.
C9_AliasRoundTrip ==
    pc = "parsed" =>
        \A i \in 1..Len(ui) :
            LET m == ui[i].mode
                w == GetInput(m, ui[i].argv)
            IN \A j \in 0..(Len(w) - 1) :
                  (Recognised(m, w, j) /\ Alias(m, w[j + 1]) # w[j + 1])
                      => /\ w[j + 1] \in DOMAIN ui[i].options
                         /\ Alias(m, w[j + 1]) \in DOMAIN ui[i].options
                         /\ ui[i].options[Alias(m, w[j + 1])] = ui[i].options[w[j + 1]]

\* an option with a parameter matched at its long spelling is there under both
C9_Witness ==
    /\ pc = "parsed"
    /\ args = <<"--num", "7">>
    /\ Recognised("root", RootWindow, 0)
    /\ Get(ui[1], "-n") = 7 /\ Get(ui[1], "--num") = 7

-----------------------------------------------------------------------------
(* C10 *)

\* the tokens of a before the first "--"
RECURSIVE BeforeSeparator(_)
BeforeSeparator(a) ==
    IF a = <<>> \/ Head(a) = "--" THEN <<>> ELSE <<Head(a)>> \o BeforeSeparator(Tail(a))

\* C10, as claimed: the input window _getinput returns to parse() is a prefix
\* of the tokens before the first "--" and never holds "--", and no option of
\* the result has "--" among its values.
C10_SeparatorOutsideWindow ==
    pc # "fed" =>
        /\ "--" \notin Range(RootWindow)
        /\ Len(RootWindow) <= Len(BeforeSeparator(args))
        /\ RootWindow = SubSeq(BeforeSeparator(args), 1, Len(RootWindow))
        /\ \A k \in DOMAIN ui[1].options :
              \A t \in Range(ui[1].options[k].vals) :
                  \A j \in 1..Len(t) : Params("root", k)[j] = "str" => t[j] # "--"

-----------------------------------------------------------------------------
(* C11 *)

\* parse() has ended, with a result or with an exception
Ended == pc \in {"parsed", "failed", "finalised"}

\* every nested parser was fed fewer tokens than the parser above it
FewerTokens == \A i \in 1..(Len(ui) - 1) : Len(ui[i + 1].argv) < Len(ui[i].argv)

\* the nested parsers are at most as many as the tokens fed to the root
DepthBound == Len(ui) - 1 <= Len(args)

\* parse() is running: the root parser or a nested one has yet to do its part
Running == pc \in {"fed", "nested"}

-----------------------------------------------------------------------------
(* C12 *)

\* the options map a newly constructed Parser gives for the tokens fed last
FreshOptions == ParseMode("", "root", args, EmptyMap).chain[1].options

\* C12: after any sequence of feed() and parse() on one Parser, the options map
\* of the result of the latest parse() is the one a newly constructed Parser
\* gives for the tokens fed last: the same counts, the same sequences of
\* tuples, and no option that only an earlier parse() saw.
C12_ReparseIndependence ==
    pc \in {"parsed", "finalised"} => ui[1].options = FreshOptions

=============================================================================
